---- MODULE Spec2Model ----
(***************************************************************************)
(* Model of src/config.py: the configuration classes MeloDConfig,          *)
(* ProjectConfig and SongConfig, their loader could_load_file, the path    *)
(* resolver _get_data_value and the fixed-path accessors.                  *)
(*                                                                         *)
(* Python values are tagged records [t |-> type name, v |-> payload].      *)
(* A str is a sequence of one-character strings, a dict is a function from  *)
(* str payloads (keys) to values, a list or tuple is a sequence of values. *)
(***************************************************************************)
EXTENDS Integers, Sequences, FiniteSets, TLC

VARIABLES _config_data, self_config_data, loaded_from, last

vars == <<_config_data, self_config_data, loaded_from, last>>

(***************************************************************************)
(* Python values                                                           *)
(***************************************************************************)
PyNone == [t |-> "None", v |-> 0]

PyInt(n) == [t |-> "int", v |-> n]

PyFloat(n) == [t |-> "float", v |-> n]

PyBool(b) == [t |-> "bool", v |-> b]

PyStr(s) == [t |-> "str", v |-> s]

PyList(l) == [t |-> "list", v |-> l]

PyTuple(l) == [t |-> "tuple", v |-> l]

PyDict(m) == [t |-> "dict", v |-> m]

\* The instance has no attribute of its own: the lookup falls through to the class.
Unset == [t |-> "unset", v |-> 0]

\* Python truthiness: `not x` is True for None, 0, 0.0, False and empty containers.
IsFalsy(x) ==
    \/ x.t = "None"
    \/ x.t \in {"int", "float"} /\ x.v = 0
    \/ x.t = "bool" /\ x.v = FALSE
    \/ x.t \in {"str", "list", "tuple"} /\ Len(x.v) = 0
    \/ x.t = "dict" /\ DOMAIN x.v = {}

(***************************************************************************)
(* Outcome of a call: a returned value or a raised exception with its      *)
(* constructor arguments.                                                  *)
(***************************************************************************)
Return(val) == [kind |-> "return", val |-> val, args |-> <<>>]

Raise(exc, args) == [kind |-> exc, val |-> PyNone, args |-> args]

NotValidConfigDataPathException == Raise("NotValidConfigDataPathException", <<>>)

\* A plausible slip: the exception is built without the path.
NotExistsInConfigException_NoPath(data_path) == Raise("NotExistsInConfigException", <<>>)

NotExistsInConfigException(data_path) == Raise("NotExistsInConfigException", <<data_path>>)

\* x.split / x.get on an object whose type has no such attribute.
AttributeError == Raise("AttributeError", <<>>)

(***************************************************************************)
(* str.split(sep) for a non-empty separator: cut at every occurrence of    *)
(* sep, scanning left to right; "".split(sep) is [""].                     *)
(***************************************************************************)
StartsWith(s, sep) == Len(s) >= Len(sep) /\ SubSeq(s, 1, Len(sep)) = sep

RECURSIVE split_from(_, _, _)
split_from(s, sep, cur) ==
    IF s = <<>> THEN <<cur>>
    ELSE IF StartsWith(s, sep)
         THEN <<cur>> \o split_from(SubSeq(s, Len(sep) + 1, Len(s)), sep, <<>>)
         ELSE split_from(Tail(s), sep, Append(cur, Head(s)))

split(s, sep) == split_from(s, sep, <<>>)

(***************************************************************************)
(* _get_data_value                                                         *)
(***************************************************************************)
\* dict.get(key): the stored value, or None when the key is absent.
dict_get(data, key) == IF key \in DOMAIN data.v THEN data.v[key] ELSE PyNone

\* A plausible change: a path with an empty segment is rejected by the validation.
is_invalid_path_EmptySegment(data_path) ==
    \/ data_path = PyNone
    \/ data_path = PyList(<<>>)
    \/ \E i \in 1..Len(split(data_path.v, <<"/">>)) : split(data_path.v, <<"/">>)[i] = <<>>

\* The guard of line 64, as written: data_path is compared with None and with [].
is_invalid_path(data_path) == data_path = PyNone \/ data_path = PyList(<<>>)

\* The guard of line 73 with `not data` in place of `data is None`.
is_dead_end_Falsy(data) == IsFalsy(data)

\* The guard of line 73: `data is None`.
is_dead_end(data) == data = PyNone

\* The loop of lines 69-76 over the remaining segments.
RECURSIVE walk(_, _, _)
walk(data, data_path_array, data_path) ==
    IF data_path_array = <<>> THEN Return(data)
    ELSE IF data.t # "dict" THEN AttributeError
    ELSE LET next == dict_get(data, Head(data_path_array))
         IN  IF is_dead_end(next)
             THEN NotExistsInConfigException(data_path)
             ELSE walk(next, Tail(data_path_array), data_path)

\* config_data is the value of self._config_data at the time of the call.
_get_data_value(config_data, data_path, sep) ==
    IF data_path.t # "str" THEN AttributeError
    ELSE LET data_path_array == split(data_path.v, sep.v)
         IN  IF is_invalid_path(data_path)
             THEN NotValidConfigDataPathException
             ELSE walk(config_data, data_path_array, data_path)

(***************************************************************************)
(* The keys named by the accessors' hardcoded paths, spelled out           *)
(* character by character.                                                 *)
(***************************************************************************)
k_printer == <<"p", "r", "i", "n", "t", "e", "r">>

k_song == <<"s", "o", "n", "g">>

k_x_ang == <<"x", "_", "a", "n", "g">>

k_y_ang == <<"y", "_", "a", "n", "g">>

k_z_ang == <<"z", "_", "a", "n", "g">>

k_x_rpr == <<"x", "_", "r", "p", "r">>

k_y_rpr == <<"y", "_", "r", "p", "r">>

k_z_rpr == <<"z", "_", "r", "p", "r">>

k_x_dim == <<"x", "_", "d", "i", "m">>

k_y_dim == <<"y", "_", "d", "i", "m">>

k_z_dim == <<"z", "_", "d", "i", "m">>

k_config_filepath == <<"c", "o", "n", "f", "i", "g", "_", "f", "i", "l", "e", "p", "a", "t", "h">>

k_song_name == <<"s", "o", "n", "g", "_", "n", "a", "m", "e">>

k_song_directory == <<"s", "o", "n", "g", "_", "d", "i", "r", "e", "c", "t", "o", "r", "y">>

k_tempo == <<"t", "e", "m", "p", "o">>

k_x_octave_adj == <<"x", "_", "o", "c", "t", "a", "v", "e", "_", "a", "d", "j">>

k_y_octave_adj == <<"y", "_", "o", "c", "t", "a", "v", "e", "_", "a", "d", "j">>

k_z_octave_adj == <<"z", "_", "o", "c", "t", "a", "v", "e", "_", "a", "d", "j">>

\* The default value of the parameter sep.
default_sep == PyStr(<<"/">>)

\* "<section>/<key>", as the literals of lines 92-119 spell it.
under(section, key) == PyStr(section \o <<"/">> \o key)

(***************************************************************************)
(* Accessors: the hardcoded paths are resolved left to right with the      *)
(* default separator; the first exception raised propagates, otherwise the *)
(* results are packed into a tuple.                                        *)
(***************************************************************************)
RECURSIVE resolve_all(_, _)
resolve_all(config_data, paths) ==
    IF paths = <<>> THEN Return(PyTuple(<<>>))
    ELSE LET first == _get_data_value(config_data, Head(paths), default_sep)
         IN  IF first.kind # "return" THEN first
             ELSE LET rest == resolve_all(config_data, Tail(paths))
                  IN  IF rest.kind # "return" THEN rest
                      ELSE Return(PyTuple(<<first.val>> \o rest.val.v))

get_printer_angles_per_step(config_data) ==
    resolve_all(config_data, <<under(k_printer, k_x_ang), under(k_printer, k_y_ang),
                               under(k_printer, k_z_ang)>>)

get_printer_rot_distance_per_rev(config_data) ==
    resolve_all(config_data, <<under(k_printer, k_x_rpr), under(k_printer, k_y_rpr),
                               under(k_printer, k_z_rpr)>>)

\* A plausible slip: the y-axis path is written for the z-axis too.
get_printer_dimensions_Typo(config_data) ==
    resolve_all(config_data, <<under(k_printer, k_x_dim), under(k_printer, k_y_dim),
                               under(k_printer, k_y_dim)>>)

get_printer_dimensions(config_data) ==
    resolve_all(config_data, <<under(k_printer, k_x_dim), under(k_printer, k_y_dim),
                               under(k_printer, k_z_dim)>>)

get_song_config_path(config_data) ==
    _get_data_value(config_data, under(k_song, k_config_filepath), default_sep)

get_song_properties(config_data) ==
    resolve_all(config_data, <<PyStr(k_song_name), PyStr(k_song_directory)>>)

get_song_tempo(config_data) == _get_data_value(config_data, PyStr(k_tempo), default_sep)

get_song_octaves_adjustment(config_data) ==
    resolve_all(config_data, <<PyStr(k_x_octave_adj), PyStr(k_y_octave_adj),
                               PyStr(k_z_octave_adj)>>)

(***************************************************************************)
(* The file system could_load_file reads.  A file path is a sequence of    *)
(* path components, absolute when it starts with "/".  A file's content is *)
(* a sequence of TOML statements `dotted.key = value`; a statement with an *)
(* empty key stands for a line that is not TOML.                           *)
(***************************************************************************)
cwd == <<"/", "cwd">>

\* os.path.abspath: a relative path is joined to the working directory.
abspath(filepath) == IF Head(filepath) = "/" THEN filepath ELSE cwd \o filepath

Stmt(key, val) == [key |-> key, val |-> val]

\* PyFloat carries the number in tenths.
project_toml ==
    << Stmt(<<k_printer, k_x_ang>>, PyFloat(18)),
       Stmt(<<k_printer, k_y_ang>>, PyFloat(18)),
       Stmt(<<k_printer, k_z_ang>>, PyFloat(9)),
       Stmt(<<k_printer, k_x_rpr>>, PyFloat(400)),
       Stmt(<<k_printer, k_y_rpr>>, PyFloat(400)),
       Stmt(<<k_printer, k_z_rpr>>, PyFloat(80)),
       Stmt(<<k_printer, k_x_dim>>, PyFloat(2200)),
       Stmt(<<k_printer, k_y_dim>>, PyFloat(0)),
       Stmt(<<k_printer, k_z_dim>>, PyFloat(2500)),
       Stmt(<<k_song, k_config_filepath>>, PyStr(<<"s", ".", "t", "o", "m", "l">>)) >>

song_toml ==
    << Stmt(<<k_song_name>>, PyStr(<<"o", "d", "e">>)),
       Stmt(<<k_song_directory>>, PyStr(<<>>)),
       Stmt(<<k_tempo>>, PyInt(120)),
       Stmt(<<k_x_octave_adj>>, PyInt(0)),
       Stmt(<<k_y_octave_adj>>, PyInt(1)),
       Stmt(<<k_z_octave_adj>>, PyInt(-1)) >>

\* Keys over the characters of the enumerated data paths, the empty key among
\* them, holding falsy scalars, a list and nested tables.
misc_toml ==
    << Stmt(<<<<"a">>, <<"a">>>>, PyBool(FALSE)),
       Stmt(<<<<"a">>, <<>>>>, PyStr(<<>>)),
       Stmt(<<<<"a">>, <<".">>>>, PyFloat(0)),
       Stmt(<<<<>>, <<"a">>>>, PyDict(<<>>)),
       Stmt(<<<<>>, <<".">>, <<>>>>, PyInt(1)),
       Stmt(<<<<".">>>>, PyInt(0)),
       Stmt(<<<<"/">>>>, PyList(<<PyInt(0)>>)) >>

empty_toml == <<>>

\* The third statement extends a key that already holds an integer.
redefined_toml ==
    << Stmt(<<<<"a">>>>, PyInt(1)),
       Stmt(<<<<".">>, <<"a">>>>, PyInt(2)),
       Stmt(<<<<"a">>, <<"a">>>>, PyInt(3)) >>

\* The second line is not a TOML statement.
garbled_toml == << Stmt(<<k_tempo>>, PyInt(90)), Stmt(<<>>, PyNone) >>

File(content) == [kind |-> "file", content |-> content]

Directory == [kind |-> "dir", content |-> <<>>]

Disk ==
    (cwd \o <<"project.toml">>) :> File(project_toml)
    @@ (cwd \o <<"song.toml">>) :> File(song_toml)
    @@ (cwd \o <<"misc.toml">>) :> File(misc_toml)
    @@ (cwd \o <<"empty.toml">>) :> File(empty_toml)
    @@ (cwd \o <<"redefined.toml">>) :> File(redefined_toml)
    @@ (cwd \o <<"garbled.toml">>) :> File(garbled_toml)
    @@ (cwd \o <<"conf.d">>) :> Directory

(***************************************************************************)
(* tomllib.load: the statements are applied in order to an initially empty *)
(* table; a statement that is not TOML, that defines a key twice or that   *)
(* extends a value that is no table raises TOMLDecodeError.  doc is the    *)
(* table built so far, which the caller receives only when ok.             *)
(***************************************************************************)
RECURSIVE toml_set(_, _, _)
toml_set(table, key, val) ==
    IF key = <<>> THEN [ok |-> FALSE, doc |-> table]
    ELSE LET k == Head(key)
         IN  IF Len(key) = 1
             THEN IF k \in DOMAIN table.v
                  THEN [ok |-> FALSE, doc |-> table]
                  ELSE [ok |-> TRUE, doc |-> PyDict((k :> val) @@ table.v)]
             ELSE LET sub == IF k \in DOMAIN table.v THEN table.v[k] ELSE PyDict(<<>>)
                  IN  IF sub.t # "dict"
                      THEN [ok |-> FALSE, doc |-> table]
                      ELSE LET r == toml_set(sub, Tail(key), val)
                           IN  [ok |-> r.ok,
                                doc |-> IF r.ok THEN PyDict((k :> r.doc) @@ table.v)
                                                ELSE table]

RECURSIVE toml_parse(_, _)
toml_parse(doc, content) ==
    IF content = <<>> THEN [ok |-> TRUE, doc |-> doc]
    ELSE LET r == toml_set(doc, Head(content).key, Head(content).val)
         IN  IF r.ok THEN toml_parse(r.doc, Tail(content)) ELSE r

tomllib_load(content) == toml_parse(PyDict(<<>>), content)

(***************************************************************************)
(* could_load_file                                                         *)
(***************************************************************************)
\* What one call does, given the current value of self._config_data: the value
\* returned, whether self._config_data is assigned and to what, and the
\* diagnostic printed.
Outcome(ret, assigned, value, printed) ==
    [ret |-> ret, assigned |-> assigned, value |-> value, printed |-> printed]

\* A plausible slip: the table is built in place, so a decode error leaves the
\* statements parsed so far in self._config_data.
load_Partial(config_data, filepath) ==
    IF filepath = PyNone \/ filepath = PyStr(<<>>)
    THEN Outcome(FALSE, FALSE, config_data, "required")
    ELSE LET full_path == abspath(filepath.v)
         IN  IF full_path \notin DOMAIN Disk
             THEN Outcome(FALSE, FALSE, config_data, "not found")
             ELSE IF Disk[full_path].kind # "file"
             THEN Outcome(FALSE, FALSE, config_data, "went wrong")
             ELSE LET r == tomllib_load(Disk[full_path].content)
                  IN  IF r.ok THEN Outcome(TRUE, TRUE, r.doc, "")
                      ELSE Outcome(FALSE, TRUE, r.doc, "format")

\* A plausible slip: the parsed table is merged into the store (dict.update)
\* instead of replacing it.
load_Merge(config_data, filepath) ==
    IF filepath = PyNone \/ filepath = PyStr(<<>>)
    THEN Outcome(FALSE, FALSE, config_data, "required")
    ELSE LET full_path == abspath(filepath.v)
         IN  IF full_path \notin DOMAIN Disk
             THEN Outcome(FALSE, FALSE, config_data, "not found")
             ELSE IF Disk[full_path].kind # "file"
             THEN Outcome(FALSE, FALSE, config_data, "went wrong")
             ELSE LET r == tomllib_load(Disk[full_path].content)
                  IN  IF r.ok
                      THEN Outcome(TRUE, TRUE,
                                   IF config_data.t = "dict"
                                   THEN PyDict(r.doc.v @@ config_data.v) ELSE r.doc, "")
                      ELSE Outcome(FALSE, FALSE, config_data, "format")

\* A plausible slip: a file that cannot be found clears the store.
load_Reset(config_data, filepath) ==
    IF filepath = PyNone \/ filepath = PyStr(<<>>)
    THEN Outcome(FALSE, FALSE, config_data, "required")
    ELSE LET full_path == abspath(filepath.v)
         IN  IF full_path \notin DOMAIN Disk
             THEN Outcome(FALSE, TRUE, PyNone, "not found")
             ELSE IF Disk[full_path].kind # "file"
             THEN Outcome(FALSE, FALSE, config_data, "went wrong")
             ELSE LET r == tomllib_load(Disk[full_path].content)
                  IN  IF r.ok THEN Outcome(TRUE, TRUE, r.doc, "")
                      ELSE Outcome(FALSE, FALSE, config_data, "format")

load(config_data, filepath) ==
    IF filepath = PyNone \/ filepath = PyStr(<<>>)
    THEN Outcome(FALSE, FALSE, config_data, "required")
    ELSE LET full_path == abspath(filepath.v)
         IN  IF full_path \notin DOMAIN Disk
             THEN Outcome(FALSE, FALSE, config_data, "not found")
             ELSE IF Disk[full_path].kind # "file"
             THEN Outcome(FALSE, FALSE, config_data, "went wrong")
             ELSE LET r == tomllib_load(Disk[full_path].content)
                  IN  IF r.ok THEN Outcome(TRUE, TRUE, r.doc, "")
                      ELSE Outcome(FALSE, FALSE, config_data, "format")

(***************************************************************************)
(* Attributes.  _config_data is the class attribute of MeloDConfig;        *)
(* self_config_data[o] is the attribute of the same name in the instance   *)
(* o, Unset until an assignment to self._config_data creates it.           *)
(***************************************************************************)
Objs == {"project", "song"}

class_of(self) == IF self = "project" THEN "ProjectConfig" ELSE "SongConfig"

\* Reading self._config_data: the instance attribute, else the class attribute.
attr(cls_data, inst_data, self) ==
    IF inst_data[self] # Unset THEN inst_data[self] ELSE cls_data

config_data_of(self) == attr(_config_data, self_config_data, self)

Attrs(cls_data, inst_data) == [cls |-> cls_data, inst |-> inst_data]

\* A plausible slip: the assignment goes to the class (MeloDConfig._config_data).
assign_ToClass(cls_data, inst_data, self, value) == Attrs(value, inst_data)

\* self._config_data = value
assign(cls_data, inst_data, self, value) ==
    Attrs(cls_data, [inst_data EXCEPT ![self] = value])

\* __init__ assigns a local variable named _config_data and nothing else.
init_attr == Unset

(***************************************************************************)
(* Inputs                                                                  *)
(***************************************************************************)
MaxLen == 3

Chars == {"a", "/", "."}

Strings == UNION {[1..n -> Chars] : n \in 0..MaxLen}

DataPaths == {PyNone} \cup {PyStr(s) : s \in Strings}

Seps == {PyStr(<<"/">>), PyStr(<<".">>)}

Filepaths ==
    {PyNone, PyStr(<<>>)}
    \cup {PyStr(<<name>>) : name \in {"song.toml", "misc.toml", "empty.toml",
                                      "redefined.toml", "garbled.toml", "conf.d",
                                      "missing.toml"}}
    \cup {PyStr(cwd \o <<"project.toml">>)}

(***************************************************************************)
(* State and operations.  last records the most recent call: the method,   *)
(* the object, the arguments, the outcome and the diagnostic printed.      *)
(* loaded_from[o] is the filepath of the most recent call of               *)
(* o.could_load_file that returned True, None before the first.            *)
(***************************************************************************)
Call(op, self, arg, sep, out, printed) ==
    [op |-> op, self |-> self, arg |-> arg, sep |-> sep, out |-> out, printed |-> printed]

Init ==
    /\ _config_data = PyNone
    /\ self_config_data = [o \in Objs |-> init_attr]
    /\ loaded_from = [o \in Objs |-> PyNone]
    /\ last = Call("__init__", "song", PyNone, PyNone, Return(PyNone), "")

could_load_file(self, filepath) ==
    LET r == load(config_data_of(self), filepath)
        new == IF r.assigned
               THEN assign(_config_data, self_config_data, self, r.value)
               ELSE Attrs(_config_data, self_config_data)
    IN  /\ _config_data' = new.cls
        /\ self_config_data' = new.inst
        /\ loaded_from' = IF r.ret THEN [loaded_from EXCEPT ![self] = filepath]
                          ELSE loaded_from
        /\ last' = Call("could_load_file", self, filepath, PyNone,
                        Return(PyBool(r.ret)), r.printed)

resolve(self, data_path, sep) ==
    /\ last' = Call("_get_data_value", self, data_path, sep,
                    _get_data_value(config_data_of(self), data_path, sep), "")
    /\ UNCHANGED <<_config_data, self_config_data, loaded_from>>

called(op, self, out) ==
    /\ last' = Call(op, self, PyNone, PyNone, out, "")
    /\ UNCHANGED <<_config_data, self_config_data, loaded_from>>

printer_angles_per_step(self) ==
    /\ class_of(self) = "ProjectConfig"
    /\ called("get_printer_angles_per_step", self,
              get_printer_angles_per_step(config_data_of(self)))

printer_rot_distance_per_rev(self) ==
    /\ class_of(self) = "ProjectConfig"
    /\ called("get_printer_rot_distance_per_rev", self,
              get_printer_rot_distance_per_rev(config_data_of(self)))

printer_dimensions(self) ==
    /\ class_of(self) = "ProjectConfig"
    /\ called("get_printer_dimensions", self, get_printer_dimensions(config_data_of(self)))

song_config_path(self) ==
    /\ class_of(self) = "ProjectConfig"
    /\ called("get_song_config_path", self, get_song_config_path(config_data_of(self)))

song_properties(self) ==
    /\ class_of(self) = "SongConfig"
    /\ called("get_song_properties", self, get_song_properties(config_data_of(self)))

song_tempo(self) ==
    /\ class_of(self) = "SongConfig"
    /\ called("get_song_tempo", self, get_song_tempo(config_data_of(self)))

song_octaves_adjustment(self) ==
    /\ class_of(self) = "SongConfig"
    /\ called("get_song_octaves_adjustment", self,
              get_song_octaves_adjustment(config_data_of(self)))

Next ==
    \/ \E self \in Objs, filepath \in Filepaths : could_load_file(self, filepath)
    \/ \E self \in Objs, data_path \in DataPaths, sep \in Seps : resolve(self, data_path, sep)
    \/ \E self \in Objs : printer_angles_per_step(self)
    \/ \E self \in Objs : printer_rot_distance_per_rev(self)
    \/ \E self \in Objs : printer_dimensions(self)
    \/ \E self \in Objs : song_config_path(self)
    \/ \E self \in Objs : song_properties(self)
    \/ \E self \in Objs : song_tempo(self)
    \/ \E self \in Objs : song_octaves_adjustment(self)

Spec == Init /\ [][Next]_vars

(***************************************************************************)
(* Vocabulary of the properties, stated on the store and the segments      *)
(* without reference to the resolver's loop.                               *)
(***************************************************************************)
IsResolverCall == last.op = "_get_data_value" /\ last.arg.t = "str"

Store(self) == config_data_of(self)

IsLoaded(self) == Store(self).t = "dict"

Segments == split(last.arg.v, last.sep.v)

RECURSIVE Join(_, _)
Join(segs, sep) ==
    IF Len(segs) = 1 THEN Head(segs) ELSE Head(segs) \o sep \o Join(Tail(segs), sep)

Contains(s, sep) == \E i \in 1..Len(s) : StartsWith(SubSeq(s, i, Len(s)), sep)

\* segs are the pieces of s between the occurrences of sep.
IsSegmentation(segs, s, sep) ==
    /\ Len(segs) >= 1
    /\ Join(segs, sep) = s
    /\ \A i \in 1..Len(segs) : ~Contains(segs[i], sep)

\* Every segment is a key of the mapping found at its nesting level.
RECURSIVE EverySegmentExists(_, _)
EverySegmentExists(store, segs) ==
    \/ segs = <<>>
    \/ /\ store.t = "dict"
       /\ Head(segs) \in DOMAIN store.v
       /\ EverySegmentExists(store.v[Head(segs)], Tail(segs))

RECURSIVE StoredAt(_, _)
StoredAt(store, segs) ==
    IF segs = <<>> THEN store ELSE StoredAt(store.v[Head(segs)], Tail(segs))

\* Following the segments through mappings reaches a mapping in which the next
\* segment is no key, or is a key holding None.
RECURSIVE DeadEnd(_, _)
DeadEnd(store, segs) ==
    /\ segs # <<>>
    /\ store.t = "dict"
    /\ \/ Head(segs) \notin DOMAIN store.v
       \/ store.v[Head(segs)] = PyNone
       \/ DeadEnd(store.v[Head(segs)], Tail(segs))

\* Following the segments through mappings reaches a value that is no mapping
\* (and not None) while a further segment remains.
RECURSIVE DescendsIntoNonMapping(_, _)
DescendsIntoNonMapping(store, segs) ==
    /\ segs # <<>>
    /\ store.t = "dict"
    /\ Head(segs) \in DOMAIN store.v
    /\ \/ /\ Tail(segs) # <<>>
          /\ store.v[Head(segs)].t \notin {"dict", "None"}
       \/ DescendsIntoNonMapping(store.v[Head(segs)], Tail(segs))

HasEmptySegment(segs) == \E i \in 1..Len(segs) : segs[i] = <<>>

\* The files of Disk that are well-formed TOML, by name.
WellFormedFiles ==
    {cwd \o <<name>> : name \in {"project.toml", "song.toml", "misc.toml", "empty.toml"}}

ParseOf(full_path) == tomllib_load(Disk[full_path].content).doc

WellFormedParses == {ParseOf(f) : f \in WellFormedFiles}

IsFailingFilepath(filepath) ==
    \/ filepath = PyNone
    \/ filepath = PyStr(<<>>)
    \/ abspath(filepath.v) \notin WellFormedFiles

IsLoadCall(call) == call.op = "could_load_file"

True == Return(PyBool(TRUE))

False == Return(PyBool(FALSE))

(***************************************************************************)
(* Properties                                                              *)
(***************************************************************************)

\* C1: on a loaded store, a path whose segments (the pieces of the path between
\* the separators) each exist as a key at the corresponding nesting level
\* resolves to exactly the value stored at the terminal location, whatever its
\* type and truthiness.
C1_ExistingPathReturnsStoredValue ==
    (IsResolverCall /\ IsLoaded(last.self)) =>
        /\ IsSegmentation(Segments, last.arg.v, last.sep.v)
        /\ EverySegmentExists(Store(last.self), Segments) =>
               last.out = Return(StoredAt(Store(last.self), Segments))

\* "a/a" in misc.toml holds False, a falsy value two levels down.
C1_Witness ==
    /\ IsResolverCall
    /\ last.arg = PyStr(<<"a", "/", "a">>)
    /\ last.sep = default_sep
    /\ Store(last.self) = ParseOf(cwd \o <<"misc.toml">>)
    /\ last.out = Return(PyBool(FALSE))

\* C2: resolving the empty-string path fails with
\* NotValidConfigDataPathException, whatever the loaded store holds.
C2_EmptyPathIsInvalid ==
    (IsResolverCall /\ last.arg = PyStr(<<>>) /\ IsLoaded(last.self)) =>
        last.out = NotValidConfigDataPathException

\* C3: when a segment yields a scalar or a sequence and a further segment
\* remains, the resolver fails with NotExistsInConfigException.
C3_NonMappingIsNotFound ==
    (IsResolverCall /\ IsLoaded(last.self)
        /\ DescendsIntoNonMapping(Store(last.self), Segments)) =>
        last.out.kind = "NotExistsInConfigException"

\* C4: on a loaded store, a segment (first, intermediate or last) that is absent
\* from the current mapping, or holds None, makes the resolver fail with
\* NotExistsInConfigException carrying the full original path.
C4_MissingKeyRaisesNotFoundWithFullPath ==
    (IsResolverCall /\ IsLoaded(last.self) /\ DeadEnd(Store(last.self), Segments)) =>
        last.out = Raise("NotExistsInConfigException", <<last.arg>>)

\* "//" on misc.toml: the empty key exists at the root, not one level down, and a
\* third segment follows.
C4_Witness ==
    /\ IsResolverCall
    /\ last.arg = PyStr(<<"/", "/">>)
    /\ last.sep = default_sep
    /\ Store(last.self) = ParseOf(cwd \o <<"misc.toml">>)
    /\ last.out = Raise("NotExistsInConfigException", <<PyStr(<<"/", "/">>)>>)

\* C5: a could_load_file call on a filepath that is None or empty, names no
\* file, names something that cannot be read as a file, or names a malformed
\* file returns False and leaves every store as it was.
C5_FailedLoadLeavesStore ==
    [][(IsLoadCall(last') /\ IsFailingFilepath(last'.arg)) =>
           /\ last'.out = False
           /\ \A o \in Objs : attr(_config_data', self_config_data', o) = Store(o)]_vars

\* A malformed file whose first statements parse, loaded over a loaded store.
C5_Witness ==
    /\ IsLoadCall(last)
    /\ last.arg = PyStr(<<"redefined.toml">>)
    /\ last.out = False
    /\ Store(last.self) = ParseOf(cwd \o <<"song.toml">>)

\* C6: when the loaded store defines printer.x_dim, printer.y_dim and
\* printer.z_dim, get_printer_dimensions returns the 3-tuple of the stored
\* values in that order.
C6_PrinterDimensions ==
    LET store == Store(last.self)
    IN  (/\ last.op = "get_printer_dimensions"
         /\ IsLoaded(last.self)
         /\ k_printer \in DOMAIN store.v
         /\ store.v[k_printer].t = "dict"
         /\ {k_x_dim, k_y_dim, k_z_dim} \subseteq DOMAIN store.v[k_printer].v) =>
            last.out = Return(PyTuple(<<store.v[k_printer].v[k_x_dim],
                                        store.v[k_printer].v[k_y_dim],
                                        store.v[k_printer].v[k_z_dim]>>))

C6_Witness ==
    /\ last.op = "get_printer_dimensions"
    /\ loaded_from[last.self] = PyStr(cwd \o <<"project.toml">>)
    /\ last.out = Return(PyTuple(<<PyFloat(2200), PyFloat(0), PyFloat(2500)>>))

\* C7: the store of an object equals the parse of the file of its most recent
\* successful could_load_file call, with nothing merged in or left over.
C7_StoreIsLastSuccessfulParse ==
    \A o \in Objs :
        loaded_from[o] # PyNone =>
            /\ abspath(loaded_from[o].v) \in WellFormedFiles
            /\ Store(o) = ParseOf(abspath(loaded_from[o].v))

\* A successful load whose file shares no key with the other files of Disk.
C7_Witness ==
    /\ IsLoadCall(last)
    /\ last.out = True
    /\ last.arg = PyStr(<<"song.toml">>)
    /\ DOMAIN Store(last.self).v =
           {k_song_name, k_song_directory, k_tempo, k_x_octave_adj, k_y_octave_adj,
            k_z_octave_adj}

\* C8: a call on one object leaves the store of every other object as it was,
\* and an object without a successful load of its own has no store.
C8_StoreOwnedByInstance ==
    [][\A o \in Objs :
           /\ o # last'.self => attr(_config_data', self_config_data', o) = Store(o)
           /\ loaded_from'[o] = PyNone => attr(_config_data', self_config_data', o) = PyNone
      ]_vars

C8_Witness ==
    /\ IsLoadCall(last)
    /\ last.self = "project"
    /\ last.out = True
    /\ IsLoaded("project")
    /\ loaded_from["song"] = PyNone
    /\ Store("song") = PyNone

\* C9: once an object has loaded successfully, it stays loaded, its store is
\* the parse of a well-formed file, and only a successful load of its own
\* changes its store.
C9_LoadedStoreIsReadOnly ==
    [][\A o \in Objs :
           loaded_from[o] # PyNone =>
               /\ loaded_from'[o] # PyNone
               /\ attr(_config_data', self_config_data', o) \in WellFormedParses
               /\ ~(IsLoadCall(last') /\ last'.self = o /\ last'.out = True) =>
                      attr(_config_data', self_config_data', o) = Store(o)
      ]_vars

\* A load of a missing file on a loaded object.
C9_Witness ==
    /\ IsLoadCall(last)
    /\ last.arg = PyStr(<<"missing.toml">>)
    /\ last.out = False
    /\ IsLoaded(last.self)

\* C10, as stated, on the walks that meet mappings only: a non-empty path with
\* an empty segment fails with NotExistsInConfigException.
C10_EmptySegmentIsNotFound ==
    (/\ IsResolverCall
     /\ last.arg.v # <<>>
     /\ IsLoaded(last.self)
     /\ HasEmptySegment(Segments)
     /\ ~DescendsIntoNonMapping(Store(last.self), Segments)) =>
        last.out.kind = "NotExistsInConfigException"

\* C10, amended: a non-empty path with an empty segment is never rejected as an
\* invalid path; the empty segment is looked up as the key "" like any other:
\* the call fails with NotExistsInConfigException carrying the full path when a
\* segment is missing from its mapping, and returns the stored value when every
\* segment, the empty ones included, is a key.
C10_EmptySegmentIsLookedUp ==
    (/\ IsResolverCall
     /\ last.arg.v # <<>>
     /\ IsLoaded(last.self)
     /\ HasEmptySegment(Segments)) =>
        /\ last.out.kind # "NotValidConfigDataPathException"
        /\ DeadEnd(Store(last.self), Segments) =>
               last.out = Raise("NotExistsInConfigException", <<last.arg>>)
        /\ EverySegmentExists(Store(last.self), Segments) =>
               last.out = Return(StoredAt(Store(last.self), Segments))

\* "a/" on misc.toml: the table a has the key "", which holds the empty string.
C10_Witness ==
    /\ IsResolverCall
    /\ last.arg = PyStr(<<"a", "/">>)
    /\ last.sep = default_sep
    /\ Store(last.self) = ParseOf(cwd \o <<"misc.toml">>)
    /\ last.out = Return(PyStr(<<>>))

====
